---- MODULE Spec2Model ----
(***************************************************************************)
(* gcovr command line driver (gcovr/__main__.py): the threshold policy     *)
(* fail_under, the option type checker check_percentage and the control    *)
(* flow of main.                                                           *)
(*                                                                         *)
(* Numbers that Python holds as floats are held here as exact decimal      *)
(* fractions [n, d] (value n/d, d > 0), or as the NaN value.               *)
(***************************************************************************)
EXTENDS Integers, Sequences, FiniteSets, TLC

VARIABLES pc, options, log, exit_status, raised, i, datafiles, covdata, calls,
          probe

vars == <<pc, options, log, exit_status, raised, i, datafiles, covdata, calls,
          probe>>

(***************************************************************************)
(* Bounds of the model.                                                    *)
(***************************************************************************)
\* longest option value text handed to check_percentage
MaxLen == 3
\* largest lines_total of a statistics tuple handed to fail_under
MaxLines == 10
\* largest branches_total of a statistics tuple handed to fail_under
MaxBranches == 2
\* most data files the discovery layer returns in one run
MaxFiles == 2
\* most patterns one filter option carries
MaxFilters == 1

(***************************************************************************)
(* Float values.                                                           *)
(***************************************************************************)
Num(n, d) == [kind |-> "num", n |-> n, d |-> d]
NaN == [kind |-> "nan", n |-> 0, d |-> 1]

\* Python's a < b and a <= b on floats: every comparison with NaN is false
Lt(a, b) == a.kind = "num" /\ b.kind = "num" /\ a.n * b.d < b.n * a.d
Le(a, b) == a.kind = "num" /\ b.kind = "num" /\ a.n * b.d <= b.n * a.d

DigitChars == <<"0", "1", "2", "3", "4", "5", "6", "7", "8", "9">>
Digits == {DigitChars[k] : k \in 1..10}
Alphabet == Digits \cup {"-", ".", "x", "n", "a"}

DigitVal(c) == (CHOOSE k \in 1..10 : DigitChars[k] = c) - 1

RECURSIVE Pow10(_)
Pow10(k) == IF k = 0 THEN 1 ELSE 10 * Pow10(k - 1)

RECURSIVE DigitsVal(_)
DigitsVal(s) ==
    IF s = <<>> THEN 0
    ELSE 10 * DigitsVal(SubSeq(s, 1, Len(s) - 1)) + DigitVal(s[Len(s)])

AllDigits(s) == \A k \in 1..Len(s) : s[k] \in Digits

\* the text with its "." (at position p) removed
DropAt(s, p) == SubSeq(s, 1, p - 1) \o SubSeq(s, p + 1, Len(s))

ValueError == [kind |-> "ValueError", n |-> 0, d |-> 1]

\* float() of an unsigned text: digits with at most one ".", at least one
\* digit; or "nan"
UFloat(s) ==
    IF s = <<"n", "a", "n">> THEN NaN
    ELSE LET dots == {p \in 1..Len(s) : s[p] = "."} IN
         IF dots = {} THEN
             IF s # <<>> /\ AllDigits(s) THEN Num(DigitsVal(s), 1) ELSE ValueError
         ELSE IF Cardinality(dots) = 1 THEN
             LET p == CHOOSE q \in dots : TRUE
                 ds == DropAt(s, p)
             IN  IF ds # <<>> /\ AllDigits(ds)
                 THEN Num(DigitsVal(ds), Pow10(Len(s) - p))
                 ELSE ValueError
         ELSE ValueError

\* float(value): an optional sign, then an unsigned float text
float(value) ==
    IF value # <<>> /\ value[1] = "-" THEN
        LET u == UFloat(Tail(value)) IN
        IF u.kind = "num" THEN Num(0 - u.n, u.d) ELSE u
    ELSE UFloat(value)

(***************************************************************************)
(* check_percentage: the type checker of --fail-under-line/-branch.        *)
(***************************************************************************)
Returned(x) == [raises |-> FALSE, x |-> x]
OptionValueError == [raises |-> TRUE, x |-> ValueError]

check_percentage_lower_open(value) ==
    LET x == float(value) IN
    IF x.kind = "ValueError" THEN OptionValueError
    ELSE IF ~(Lt(Num(0, 1), x) /\ Le(x, Num(100, 1))) THEN OptionValueError
    ELSE Returned(x)

check_percentage(value) ==
    LET x == float(value) IN
    IF x.kind = "ValueError" THEN OptionValueError
    ELSE IF ~(Le(Num(0, 1), x) /\ Le(x, Num(100, 1))) THEN OptionValueError
    ELSE Returned(x)

(***************************************************************************)
(* The coverage store and the statistics engine (gcovr/gcov.py and         *)
(* gcovr/utils.py), after sections 3, 4.3 and 4.4 of the specification.    *)
(***************************************************************************)
Branch(taken) == [taken |-> taken, excluded |-> FALSE]
Line(count, excluded, branches) ==
    [count |-> count, excluded |-> excluded, branches |-> branches]

\* the data files of the modelled project
DataFiles == {"a.gcda", "b.gcda"}

\* the fragment that parsing and exclusion-annotating one data file yields:
\* both describe a.c, and the second carries every line as excluded
Fragment(file) ==
    IF file = "a.gcda" THEN
        [path |-> "a.c",
         lines |-> (1 :> Line(1, FALSE, <<Branch(1), Branch(0)>>)) @@
                   (2 :> Line(0, FALSE, <<>>))]
    ELSE
        [path |-> "a.c",
         lines |-> (1 :> Line(0, TRUE, <<Branch(0), Branch(1)>>)) @@
                   (2 :> Line(1, TRUE, <<>>))]

Max(a, b) == IF a >= b THEN a ELSE b

\* branches merge positionally: taken sums, excluded is OR'd, an index on one
\* side only is carried through
MergeBranches(a, b) ==
    [k \in 1..Max(Len(a), Len(b)) |->
        IF k <= Len(a) /\ k <= Len(b)
        THEN [taken |-> a[k].taken + b[k].taken,
              excluded |-> a[k].excluded \/ b[k].excluded]
        ELSE IF k <= Len(a) THEN a[k] ELSE b[k]]

MergeLine(a, b) ==
    [count |-> a.count + b.count,
     excluded |-> a.excluded \/ b.excluded,
     branches |-> MergeBranches(a.branches, b.branches)]

MergeLines(a, b) ==
    [l \in DOMAIN a \cup DOMAIN b |->
        IF l \in DOMAIN a /\ l \in DOMAIN b THEN MergeLine(a[l], b[l])
        ELSE IF l \in DOMAIN a THEN a[l] ELSE b[l]]

\* fold one fragment into the store under its canonical path
Merge(store, frag) ==
    IF frag.path \in DOMAIN store
    THEN [store EXCEPT ![frag.path] = MergeLines(@, frag.lines)]
    ELSE store @@ (frag.path :> frag.lines)

process_datafile(file_, store) == Merge(store, Fragment(file_))

process_existing_gcov_file(file_, store) == Merge(store, Fragment(file_))

EmptyStore == [p \in {} |-> 0]

LineKeys(store) ==
    UNION {{<<p, l>> : l \in {m \in DOMAIN store[p] : ~store[p][m].excluded}} :
           p \in DOMAIN store}

BranchKeys(store) ==
    UNION {{<<k[1], k[2], b>> :
              b \in {c \in 1..Len(store[k[1]][k[2]].branches) :
                       ~store[k[1]][k[2]].branches[c].excluded}} :
           k \in LineKeys(store)}

\* covered / total * 100, and 100.0 when there is nothing to cover
Percent(covered, total) ==
    IF total = 0 THEN Num(100, 1) ELSE Num(100 * covered, total)

StatsOf(lt, lc, p, bt, bc, pb) ==
    [lines_total |-> lt, lines_covered |-> lc, percent |-> p,
     branches_total |-> bt, branches_covered |-> bc, percent_branches |-> pb]

get_global_stats(store) ==
    LET lt == Cardinality(LineKeys(store))
        lc == Cardinality({k \in LineKeys(store) : store[k[1]][k[2]].count > 0})
        bt == Cardinality(BranchKeys(store))
        bc == Cardinality({k \in BranchKeys(store) :
                              store[k[1]][k[2]].branches[k[3]].taken > 0})
    IN  StatsOf(lt, lc, Percent(lc, lt), bt, bc, Percent(bc, bt))

(***************************************************************************)
(* fail_under: the threshold policy.                                       *)
(***************************************************************************)
Return == [exits |-> FALSE, status |-> 0]
SysExit(n) == [exits |-> TRUE, status |-> n]

\* the body of fail_under after get_global_stats has returned `stats`
fail_under_no_override(stats, threshold_line, threshold_branch) ==
    LET percent == stats.percent
        percent_branches == stats.percent_branches
    IN  IF Lt(percent, threshold_line) /\ Lt(percent_branches, threshold_branch)
        THEN SysExit(6)
        ELSE IF Lt(percent, threshold_line) THEN SysExit(2)
        ELSE IF Lt(percent_branches, threshold_branch) THEN SysExit(4)
        ELSE Return

fail_under_inclusive(stats, threshold_line, threshold_branch) ==
    LET percent == stats.percent
        percent_branches ==
            IF stats.branches_total = 0 THEN Num(100, 1) ELSE stats.percent_branches
    IN  IF Le(percent, threshold_line) /\ Le(percent_branches, threshold_branch)
        THEN SysExit(6)
        ELSE IF Le(percent, threshold_line) THEN SysExit(2)
        ELSE IF Le(percent_branches, threshold_branch) THEN SysExit(4)
        ELSE Return

fail_under_both_as_line(stats, threshold_line, threshold_branch) ==
    LET percent == stats.percent
        percent_branches ==
            IF stats.branches_total = 0 THEN Num(100, 1) ELSE stats.percent_branches
    IN  IF Lt(percent, threshold_line) THEN SysExit(2)
        ELSE IF Lt(percent_branches, threshold_branch) THEN SysExit(4)
        ELSE Return

fail_under_swapped(stats, threshold_line, threshold_branch) ==
    LET percent == stats.percent
        percent_branches ==
            IF stats.branches_total = 0 THEN Num(100, 1) ELSE stats.percent_branches
    IN  IF Lt(percent, threshold_branch) /\ Lt(percent_branches, threshold_line)
        THEN SysExit(6)
        ELSE IF Lt(percent, threshold_branch) THEN SysExit(2)
        ELSE IF Lt(percent_branches, threshold_line) THEN SysExit(4)
        ELSE Return

fail_under_stats(stats, threshold_line, threshold_branch) ==
    LET percent == stats.percent
        percent_branches ==
            IF stats.branches_total = 0 THEN Num(100, 1) ELSE stats.percent_branches
    IN  IF Lt(percent, threshold_line) /\ Lt(percent_branches, threshold_branch)
        THEN SysExit(6)
        ELSE IF Lt(percent, threshold_line) THEN SysExit(2)
        ELSE IF Lt(percent_branches, threshold_branch) THEN SysExit(4)
        ELSE Return

fail_under(covdata_, threshold_line, threshold_branch) ==
    fail_under_stats(get_global_stats(covdata_), threshold_line, threshold_branch)

(***************************************************************************)
(* main.  The command line is fixed before main runs but is unknown to     *)
(* the model: an option holds Unread until the statement that first reads  *)
(* it, which draws its value, and keeps that value from then on.           *)
(***************************************************************************)
Unread == <<>>
Unbound == <<>>
Running == <<>>
None == "<None>"

OptionNames ==
    {"version", "objdir", "root", "root_dir", "root_filter", "exclude",
     "exclude_dirs", "filter", "gcov_exclude", "gcov_filter", "gcov_files",
     "xml", "prettyxml", "html", "html_details", "print_summary",
     "fail_under_line", "fail_under_branch"}

IsRead(name) == options[name] # Unread
Opt(name) == options[name][1]
Set(opts, name, v) == [opts EXCEPT ![name] = <<v>>]

Entry(level, text) == [level |-> level, text |-> text]
Call(fn, file, store) == [fn |-> fn, file |-> file, cov |-> store]

Exit(status) ==
    /\ exit_status' = <<status>>
    /\ pc' = "exited"

\* the directories that exist in the modelled file system
ExistingDirs == {"build", "."}
ObjDirs == {None, "", "build", "./build", "nodir"}
Roots == {"", "."}

normpath(path) == IF path = "./build" THEN "build" ELSE path
exists(path) == path \in ExistingDirs
abspath(path) == IF path = "." THEN "/cwd" ELSE "/cwd/" \o path

\* filter patterns: "(" is no regular expression
Patterns == {"src", "("}
re_compile(pattern) == "re(" \o pattern \o ")"

\* build_filter: the compiled filter, or the failure of an invalid pattern
build_filter(pattern) ==
    IF pattern = "(" THEN [raises |-> TRUE, filter |-> ""]
    ELSE [raises |-> FALSE, filter |-> re_compile(pattern)]

RECURSIVE SeqsUpTo(_, _)
SeqsUpTo(S, n) ==
    IF n = 0 THEN {<<>>}
    ELSE LET shorter == SeqsUpTo(S, n - 1)
         IN  shorter \cup {Append(q, x) : q \in shorter, x \in S}

FilterLists == SeqsUpTo(Patterns, MaxFilters)

\* the order of the stages of main
Successor_gcov_filter_late(stage) ==
    CASE stage = "start" -> "objdir"
      [] stage = "objdir" -> "root"
      [] stage = "root" -> "exclude"
      [] stage = "exclude" -> "exclude_dirs"
      [] stage = "exclude_dirs" -> "filter"
      [] stage = "filter" -> "gcov_exclude"
      [] stage = "gcov_exclude" -> "get_datafiles"
      [] stage = "get_datafiles" -> "process"
      [] stage = "process" -> "gcov_filter"
      [] stage = "gcov_filter" -> "report"
      [] stage = "report" -> "summary"
      [] stage = "summary" -> "threshold"
      [] stage = "threshold" -> "done"

Successor(stage) ==
    CASE stage = "start" -> "objdir"
      [] stage = "objdir" -> "root"
      [] stage = "root" -> "exclude"
      [] stage = "exclude" -> "exclude_dirs"
      [] stage = "exclude_dirs" -> "filter"
      [] stage = "filter" -> "gcov_exclude"
      [] stage = "gcov_exclude" -> "gcov_filter"
      [] stage = "gcov_filter" -> "get_datafiles"
      [] stage = "get_datafiles" -> "process"
      [] stage = "process" -> "report"
      [] stage = "report" -> "summary"
      [] stage = "summary" -> "threshold"
      [] stage = "threshold" -> "done"

NoProbe == [fn |-> "none"]

Init ==
    /\ pc = "start"
    /\ options = [name \in OptionNames |-> Unread]
    /\ log = <<>>
    /\ exit_status = Running
    /\ raised = ""
    /\ i = 0
    /\ datafiles = Unbound
    /\ covdata = Unbound
    /\ calls = <<>>
    /\ probe = NoProbe

\* if options.version: print the version and exit
PrintVersion ==
    /\ pc = "start"
    /\ options' = Set(options, "version", TRUE)
    /\ log' = Append(log, Entry("msg", "gcovr version"))
    /\ Exit(0)
    /\ UNCHANGED <<raised, i, datafiles, covdata, calls, probe>>

NoVersion ==
    /\ pc = "start"
    /\ options' = Set(options, "version", FALSE)
    /\ pc' = Successor("start")
    /\ UNCHANGED <<log, exit_status, raised, i, datafiles, covdata,
                   calls, probe>>

\* --object-directory given as the empty string
ObjdirEmpty ==
    /\ pc = "objdir"
    /\ options' = Set(options, "objdir", "")
    /\ log' = Append(log, Entry("error", "empty --object-directory option."))
    /\ Exit(1)
    /\ UNCHANGED <<raised, i, datafiles, covdata, calls, probe>>

\* the log after the relative-referencing check of --object-directory
ObjdirWarned(dir) ==
    IF normpath(dir) # dir
    THEN Append(log, Entry("warn", "relative referencing in --object-directory."))
    ELSE log

\* --object-directory names a directory that does not exist
ObjdirMissing ==
    /\ pc = "objdir"
    /\ \E dir \in ObjDirs \ {None, ""} :
        /\ ~exists(normpath(dir))
        /\ options' = Set(options, "objdir", dir)
        /\ log' = Append(ObjdirWarned(dir),
                         Entry("error", "Bad --object-directory option."))
    /\ Exit(1)
    /\ UNCHANGED <<raised, i, datafiles, covdata, calls, probe>>

\* --object-directory absent, or naming an existing directory
ObjdirOk ==
    /\ pc = "objdir"
    /\ \E dir \in ObjDirs \ {""} :
        /\ dir # None => exists(normpath(dir))
        /\ options' = Set(options, "objdir", dir)
        /\ log' = IF dir = None THEN log ELSE ObjdirWarned(dir)
    /\ pc' = Successor("objdir")
    /\ UNCHANGED <<exit_status, raised, i, datafiles, covdata, calls,
                   probe>>

RootEmpty_no_exit ==
    /\ pc = "root"
    /\ options' = Set(options, "root", "")
    /\ log' = Append(log, Entry("error", "empty --root option."))
    /\ pc' = Successor("root")
    /\ UNCHANGED <<exit_status, raised, i, datafiles, covdata, calls,
                   probe>>

\* --root given as the empty string
RootEmpty ==
    /\ pc = "root"
    /\ options' = Set(options, "root", "")
    /\ log' = Append(log, Entry("error", "empty --root option."))
    /\ Exit(1)
    /\ UNCHANGED <<raised, i, datafiles, covdata, calls, probe>>

RootOk ==
    /\ pc = "root"
    /\ \E root \in Roots \ {""} :
        options' = Set(Set(options, "root", root), "root_dir", abspath(root))
    /\ pc' = Successor("root")
    /\ UNCHANGED <<log, exit_status, raised, i, datafiles, covdata,
                   calls, probe>>

ListKinds == {"exclude", "exclude_dirs", "filter", "gcov_exclude"}

\* for i in range(0, len(options.<kind>)): the list is read
FilterLoopEnter(kind) ==
    /\ pc = kind
    /\ ~IsRead(kind)
    /\ \E patterns \in FilterLists : options' = Set(options, kind, patterns)
    /\ i' = 0
    /\ UNCHANGED <<pc, log, exit_status, raised, datafiles, covdata,
                   calls, probe>>

\* options.<kind>[i] = build_filter(options.<kind>[i])
FilterLoopStep(kind) ==
    /\ pc = kind
    /\ IsRead(kind)
    /\ i < Len(Opt(kind))
    /\ LET built == build_filter(Opt(kind)[i + 1]) IN
        IF built.raises
        THEN /\ raised' = "re.error"
             /\ Exit(1)
             /\ UNCHANGED <<options, i>>
        ELSE /\ options' = [options EXCEPT ![kind][1][i + 1] = built.filter]
             /\ i' = i + 1
             /\ UNCHANGED <<pc, exit_status, raised>>
    /\ UNCHANGED <<log, datafiles, covdata, calls, probe>>

\* the options as the statements between this loop and the next leave them
AfterLoop(kind) ==
    IF kind = "exclude_dirs"
    THEN Set(options, "root_filter", re_compile(Opt("root_dir") \o "/"))
    ELSE IF kind = "filter" /\ Len(Opt("filter")) = 0
    THEN Set(options, "filter", <<Opt("root_filter")>>)
    ELSE options

FilterLoopExit(kind) ==
    /\ pc = kind
    /\ IsRead(kind)
    /\ i = Len(Opt(kind))
    /\ options' = AfterLoop(kind)
    /\ pc' = Successor(kind)
    /\ i' = 0
    /\ UNCHANGED <<log, exit_status, raised, datafiles, covdata,
                   calls, probe>>

BuildExclude ==
    FilterLoopEnter("exclude") \/ FilterLoopStep("exclude") \/ FilterLoopExit("exclude")

BuildExcludeDirs ==
    \/ FilterLoopEnter("exclude_dirs")
    \/ FilterLoopStep("exclude_dirs")
    \/ FilterLoopExit("exclude_dirs")

BuildFilter ==
    FilterLoopEnter("filter") \/ FilterLoopStep("filter") \/ FilterLoopExit("filter")

BuildGcovExclude ==
    \/ FilterLoopEnter("gcov_exclude")
    \/ FilterLoopStep("gcov_exclude")
    \/ FilterLoopExit("gcov_exclude")

\* options.gcov_filter: built when given, else the filter matching everything
BuildGcovFilter ==
    /\ pc = "gcov_filter"
    /\ \E given \in Patterns \cup {None} :
        IF given = None
        THEN /\ options' = Set(options, "gcov_filter", re_compile(""))
             /\ pc' = Successor("gcov_filter")
             /\ UNCHANGED <<exit_status, raised>>
        ELSE LET built == build_filter(given) IN
             IF built.raises
             THEN /\ options' = Set(options, "gcov_filter", given)
                  /\ raised' = "re.error"
                  /\ Exit(1)
             ELSE /\ options' = Set(options, "gcov_filter", built.filter)
                  /\ pc' = Successor("gcov_filter")
                  /\ UNCHANGED <<exit_status, raised>>
    /\ UNCHANGED <<log, i, datafiles, covdata, calls, probe>>

\* positional arguments of the command line
ArgLists == {<<>>, <<"build">>}

\* the first argument of get_datafiles
SearchPaths(args) ==
    IF Len(args) = 0
    THEN IF Opt("objdir") # None
         THEN <<Opt("root"), Opt("objdir")>>
         ELSE <<Opt("root")>>
    ELSE args

\* get_datafiles: the discovery layer may hand back any list of data files
get_datafiles(paths) == SeqsUpTo(DataFiles, MaxFiles)

\* datafiles = get_datafiles(...); covdata = {}
GetDatafiles ==
    /\ pc = "get_datafiles"
    /\ \E args \in ArgLists :
        \E found \in get_datafiles(SearchPaths(args)) : datafiles' = <<found>>
    /\ covdata' = <<EmptyStore>>
    /\ i' = 0
    /\ pc' = Successor("get_datafiles")
    /\ UNCHANGED <<options, log, exit_status, raised, calls, probe>>

MoreInputs_skip_last(idx, files) == idx < Len(files) - 1

\* for file_ in datafiles: is there another input
MoreInputs(idx, files) == idx < Len(files)

\* one iteration of the loop over datafiles
ProcessInput ==
    /\ pc = "process"
    /\ MoreInputs(i, datafiles[1])
    /\ LET file_ == datafiles[1][i + 1] IN
       \E gcov_files \in (IF IsRead("gcov_files") THEN {Opt("gcov_files")} ELSE BOOLEAN) :
        /\ options' = Set(options, "gcov_files", gcov_files)
        /\ IF gcov_files
           THEN /\ covdata' = <<process_existing_gcov_file(file_, covdata[1])>>
                /\ calls' = Append(calls, Call("process_existing_gcov_file", file_,
                                               covdata[1]))
           ELSE /\ covdata' = <<process_datafile(file_, covdata[1])>>
                /\ calls' = Append(calls, Call("process_datafile", file_, covdata[1]))
    /\ i' = i + 1
    /\ UNCHANGED <<pc, log, exit_status, raised, datafiles, probe>>

\* the loop is over: logger.verbose_msg(...)
ProcessDone ==
    /\ pc = "process"
    /\ ~MoreInputs(i, datafiles[1])
    /\ log' = Append(log, Entry("verbose_msg", "Gathered coveraged data"))
    /\ pc' = Successor("process")
    /\ UNCHANGED <<options, exit_status, raised, i, datafiles, covdata,
                   calls, probe>>

print_report_html_only(xml, prettyxml, html, html_details) ==
    IF xml \/ prettyxml THEN "print_xml_report"
    ELSE IF html THEN "print_html_report"
    ELSE "print_text_report"

\* the renderer the report flags select
print_report(xml, prettyxml, html, html_details) ==
    IF xml \/ prettyxml THEN "print_xml_report"
    ELSE IF html \/ html_details THEN "print_html_report"
    ELSE "print_text_report"

\* the report flags as the short-circuit evaluation reads them: a flag to the
\* right of a true one is never read
ReadFlags(opts, xml, prettyxml, html, html_details) ==
    LET o1 == Set(opts, "xml", xml)
        o2 == IF xml THEN o1 ELSE Set(o1, "prettyxml", prettyxml)
        o3 == IF xml \/ prettyxml THEN o2 ELSE Set(o2, "html", html)
    IN  IF xml \/ prettyxml \/ html THEN o3 ELSE Set(o3, "html_details", html_details)

PrintReport ==
    /\ pc = "report"
    /\ \E xml, prettyxml, html, html_details \in BOOLEAN :
        /\ xml => ~prettyxml
        /\ xml \/ prettyxml => ~html
        /\ xml \/ prettyxml \/ html => ~html_details
        /\ options' = ReadFlags(options, xml, prettyxml, html, html_details)
        /\ calls' = Append(calls, Call(print_report(xml, prettyxml, html, html_details),
                                       "", covdata[1]))
    /\ pc' = Successor("report")
    /\ UNCHANGED <<log, exit_status, raised, i, datafiles, covdata,
                   probe>>

PrintSummary ==
    /\ pc = "summary"
    /\ \E wanted \in BOOLEAN :
        /\ options' = Set(options, "print_summary", wanted)
        /\ calls' = IF wanted THEN Append(calls, Call("print_summary", "", covdata[1]))
                    ELSE calls
    /\ pc' = Successor("summary")
    /\ UNCHANGED <<log, exit_status, raised, i, datafiles, covdata,
                   probe>>

\* the option values of the thresholds given on the command line of a run
ThresholdArgs == {<<"0">>, <<"1", "0", "0">>, <<"1", "0", "1">>}

\* the values optparse stores for them: those check_percentage returns
Thresholds(texts) ==
    {check_percentage(t).x : t \in {u \in texts : ~check_percentage(u).raises}}

\* if fail_under_line > 0.0 or fail_under_branch > 0.0: fail_under(...)
CheckThresholds ==
    /\ pc = "threshold"
    /\ \E tl, tb \in Thresholds(ThresholdArgs) :
        /\ options' = Set(Set(options, "fail_under_line", tl), "fail_under_branch", tb)
        /\ IF Lt(Num(0, 1), tl) \/ Lt(Num(0, 1), tb)
           THEN LET outcome == fail_under(covdata[1], tl, tb) IN
                /\ calls' = Append(calls, Call("fail_under", "", covdata[1]))
                /\ IF outcome.exits
                   THEN Exit(outcome.status)
                   ELSE /\ pc' = Successor("threshold")
                        /\ exit_status' = <<0>>
           ELSE /\ calls' = calls
                /\ pc' = Successor("threshold")
                /\ exit_status' = <<0>>
    /\ UNCHANGED <<log, raised, i, datafiles, covdata, probe>>

Next ==
    \/ PrintVersion
    \/ NoVersion
    \/ ObjdirEmpty
    \/ ObjdirMissing
    \/ ObjdirOk
    \/ RootEmpty
    \/ RootOk
    \/ BuildExclude
    \/ BuildExcludeDirs
    \/ BuildFilter
    \/ BuildGcovExclude
    \/ BuildGcovFilter
    \/ GetDatafiles
    \/ ProcessInput
    \/ ProcessDone
    \/ PrintReport
    \/ PrintSummary
    \/ CheckThresholds

Spec == Init /\ [][Next]_vars

(***************************************************************************)
(* The pure functions on their own: check_percentage on every short text,  *)
(* and the thresholds of a command line checked by check_percentage and    *)
(* handed to fail_under with any statistics get_global_stats may return.   *)
(***************************************************************************)
Texts == SeqsUpTo(Alphabet, MaxLen)

PolicyArgs ==
    {<<"0">>, <<"5", "0">>, <<"6", "0">>, <<"8", "0">>, <<"1", "0", "0">>,
     <<"1", "0", "1">>, <<"-", "1">>}

\* with no branch the engine's percentage is left open: fail_under replaces it
BranchPercents(bc, bt) ==
    IF bt = 0 THEN {Num(0, 1), Num(100, 1)} ELSE {Percent(bc, bt)}

StatsTuples ==
    UNION {UNION {{StatsOf(lt, lc, Percent(lc, lt), bt, bc, pb) :
                     pb \in BranchPercents(bc, bt)} :
                  lc \in 0..lt, bc \in 0..bt} :
           lt \in 0..MaxLines, bt \in 0..MaxBranches}

CheckProbes ==
    {[fn |-> "check_percentage", stage |-> "call", value |-> t, result |-> Unbound] :
        t \in Texts}

PolicyProbes ==
    {[fn |-> "fail_under", stage |-> "args", value_line |-> vl, value_branch |-> vb,
      stats |-> st, threshold_line |-> Unread, threshold_branch |-> Unread,
      outcome |-> Unbound] :
        vl \in PolicyArgs, vb \in PolicyArgs, st \in StatsTuples}

FnInit ==
    /\ pc = "probe"
    /\ options = [name \in OptionNames |-> Unread]
    /\ log = <<>>
    /\ exit_status = Running
    /\ raised = ""
    /\ i = 0
    /\ datafiles = Unbound
    /\ covdata = Unbound
    /\ calls = <<>>
    /\ probe \in CheckProbes \cup PolicyProbes

CallCheckPercentage ==
    /\ probe.fn = "check_percentage"
    /\ probe.stage = "call"
    /\ LET r == check_percentage(probe.value) IN
        probe' = [probe EXCEPT !.stage = IF r.raises THEN "raised" ELSE "returned",
                               !.result = <<r>>]
    /\ UNCHANGED <<pc, options, log, exit_status, raised, i, datafiles, covdata, calls>>

\* optparse checks both threshold values; a value check_percentage refuses
\* ends the run as a usage error
ParseThresholds ==
    /\ probe.fn = "fail_under"
    /\ probe.stage = "args"
    /\ LET rl == check_percentage(probe.value_line)
           rb == check_percentage(probe.value_branch)
       IN  probe' = IF rl.raises \/ rb.raises
                    THEN [probe EXCEPT !.stage = "usage_error"]
                    ELSE [probe EXCEPT !.stage = "parsed",
                                       !.threshold_line = <<rl.x>>,
                                       !.threshold_branch = <<rb.x>>]
    /\ UNCHANGED <<pc, options, log, exit_status, raised, i, datafiles, covdata, calls>>

CallFailUnder ==
    /\ probe.fn = "fail_under"
    /\ probe.stage = "parsed"
    /\ probe' = [probe EXCEPT
                    !.stage = "done",
                    !.outcome = <<fail_under_stats(probe.stats, probe.threshold_line[1],
                                                   probe.threshold_branch[1])>>]
    /\ UNCHANGED <<pc, options, log, exit_status, raised, i, datafiles, covdata, calls>>

FnNext == CallCheckPercentage \/ ParseThresholds \/ CallFailUnder

SpecFn == FnInit /\ [][FnNext]_vars

(***************************************************************************)
(* Properties of fail_under and check_percentage, under SpecFn.            *)
(***************************************************************************)
PolicyDone == probe.fn = "fail_under" /\ probe.stage = "done"

\* a percent is below a threshold: percent.n / percent.d < threshold.n / threshold.d
Below(percent, threshold) == percent.n * threshold.d < threshold.n * percent.d

\* the branch percentage the policy uses
PolicyBranchPercent(stats) ==
    IF stats.branches_total = 0 THEN Num(100, 1) ELSE stats.percent_branches

LineViolated == Below(probe.stats.percent, probe.threshold_line[1])
BranchViolated == Below(PolicyBranchPercent(probe.stats), probe.threshold_branch[1])

\* C1: fail_under counts a threshold as violated exactly when the percent is
\* strictly below it, and ends in exactly one of four ways: it returns when
\* neither is violated, exits 2 when only the line threshold is, 4 when only
\* the branch threshold is, 6 when both are.  7 of 10 lines covered with
\* thresholds 80 and 0 exits 2, and with 60 and 0 returns.
C1_FourOutcomes ==
    PolicyDone =>
        LET outcome == probe.outcome[1] IN
        /\ (~LineViolated /\ ~BranchViolated) => outcome = Return
        /\ (LineViolated /\ ~BranchViolated) => outcome = SysExit(2)
        /\ (~LineViolated /\ BranchViolated) => outcome = SysExit(4)
        /\ (LineViolated /\ BranchViolated) => outcome = SysExit(6)
        /\ (/\ probe.stats.lines_total = 10
            /\ probe.stats.lines_covered = 7
            /\ probe.threshold_branch[1] = Num(0, 1)) =>
               /\ probe.threshold_line[1] = Num(80, 1) => outcome = SysExit(2)
               /\ probe.threshold_line[1] = Num(60, 1) => outcome = Return

C1_Witness ==
    /\ PolicyDone
    /\ probe.stats.lines_total = 10
    /\ probe.stats.lines_covered = 7
    /\ probe.threshold_line[1] = Num(80, 1)
    /\ probe.threshold_branch[1] = Num(0, 1)
    /\ probe.outcome[1] = SysExit(2)

RECURSIVE BitAnd(_, _)
BitAnd(a, b) ==
    IF a = 0 \/ b = 0 THEN 0
    ELSE 2 * BitAnd(a \div 2, b \div 2) + (IF a % 2 = 1 /\ b % 2 = 1 THEN 1 ELSE 0)

RECURSIVE BitOr(_, _)
BitOr(a, b) ==
    IF a = 0 THEN b
    ELSE IF b = 0 THEN a
    ELSE 2 * BitOr(a \div 2, b \div 2) + (IF a % 2 = 1 \/ b % 2 = 1 THEN 1 ELSE 0)

\* the statuses fail_under ends with on half covered lines and branches
HalfCovered == StatsOf(2, 1, Percent(1, 2), 2, 1, Percent(1, 2))
LineOnlyStatus == fail_under_stats(HalfCovered, Num(100, 1), Num(0, 1)).status
BranchOnlyStatus == fail_under_stats(HalfCovered, Num(0, 1), Num(100, 1)).status
BothStatus == fail_under_stats(HalfCovered, Num(100, 1), Num(100, 1)).status

\* C2: the status for both thresholds violated is the bitwise OR of the
\* line-only and the branch-only status, these two are non-zero and share no
\* bit, and in every outcome of fail_under the line bit is set exactly when
\* the line threshold is violated and the branch bit exactly when the branch
\* threshold is.
C2_StatusBits ==
    /\ LineOnlyStatus # 0
    /\ BranchOnlyStatus # 0
    /\ BitAnd(LineOnlyStatus, BranchOnlyStatus) = 0
    /\ BothStatus = BitOr(LineOnlyStatus, BranchOnlyStatus)
    /\ PolicyDone =>
        LET status == probe.outcome[1].status IN
        /\ probe.outcome[1].exits <=> status # 0
        /\ BitAnd(status, LineOnlyStatus) # 0 <=> LineViolated
        /\ BitAnd(status, BranchOnlyStatus) # 0 <=> BranchViolated

C2_Witness ==
    /\ PolicyDone
    /\ LineViolated
    /\ BranchViolated
    /\ probe.outcome[1].status = BitOr(LineOnlyStatus, BranchOnlyStatus)

\* C3: with zero branches in the project the policy's branch percentage is
\* 100 whatever get_global_stats returned, so fail_under never ends with
\* status 4 or 6, for every threshold and every line result.
C3_ZeroBranchesPass ==
    (PolicyDone /\ probe.stats.branches_total = 0) =>
        probe.outcome[1].status \notin {4, 6}

C3_Witness ==
    /\ PolicyDone
    /\ probe.stats.branches_total = 0
    /\ probe.stats.percent_branches = Num(0, 1)
    /\ probe.threshold_branch[1] = Num(100, 1)
    /\ LineViolated
    /\ probe.outcome[1] = SysExit(2)

InRange(x) == x.kind = "num" /\ 0 <= x.n /\ x.n <= 100 * x.d

\* C8: check_percentage returns x when the value parses as a number x with
\* 0 <= x <= 100, both ends included, and raises OptionValueError for every
\* other value; so the thresholds handed to fail_under lie in [0, 100].
C8_PercentageRange ==
    /\ (probe.fn = "check_percentage" /\ probe.stage # "call") =>
        LET x == float(probe.value) IN
        /\ probe.stage = "returned" <=> InRange(x)
        /\ probe.stage = "returned" => probe.result[1] = Returned(x)
        /\ probe.stage = "raised" <=> probe.result[1] = OptionValueError
    /\ (probe.fn = "fail_under" /\ probe.stage \in {"parsed", "done"}) =>
        /\ InRange(probe.threshold_line[1])
        /\ InRange(probe.threshold_branch[1])

C8_Witness ==
    /\ probe.fn = "check_percentage"
    /\ probe.stage = "returned"
    /\ probe.value = <<"0">>
    /\ probe.result[1].x = Num(0, 1)

(***************************************************************************)
(* Properties of main, under Spec.                                         *)
(***************************************************************************)
Flag(name) == IsRead(name) /\ Opt(name)
Positive(x) == 0 < x.n

ThresholdExits == {<<2>>, <<4>>, <<6>>}

\* C4: with zero instrumentable lines in the project the line percentage is
\* 100, so a run never exits with status 2 or 6, whatever fail_under_line is.
C4_NoLinesPass ==
    (covdata # Unbound /\ get_global_stats(covdata[1]).lines_total = 0) =>
        exit_status \notin {<<2>>, <<6>>}

C4_Witness ==
    /\ pc = "done"
    /\ DOMAIN covdata[1] # {}
    /\ get_global_stats(covdata[1]).lines_total = 0
    /\ Opt("fail_under_line") = Num(100, 1)
    /\ calls[Len(calls)].fn = "fail_under"

ProcessFns == {"process_datafile", "process_existing_gcov_file"}

\* the store after the first k inputs have been folded in, in order
RECURSIVE StoreAfter(_, _)
StoreAfter(files, k) ==
    IF k = 0 THEN EmptyStore
    ELSE Merge(StoreAfter(files, k - 1), Fragment(files[k]))

\* C5: the inputs are handled one at a time in the order the discovery layer
\* gave, each folded into the one store before the next is started, and the
\* renderers, the summary and the threshold policy are called only after the
\* last input, with the store that holds every input.
C5_InputsInOrder ==
    datafiles # Unbound =>
        LET files == datafiles[1] IN
        /\ i <= Len(files)
        /\ covdata[1] = StoreAfter(files, i)
        /\ pc \in {"report", "summary", "threshold", "done"} => i = Len(files)
        /\ \A k \in 1..Len(calls) :
            IF calls[k].fn \in ProcessFns
            THEN /\ k <= i
                 /\ calls[k].file = files[k]
                 /\ calls[k].cov = StoreAfter(files, k - 1)
            ELSE /\ k > Len(files)
                 /\ calls[k].cov = StoreAfter(files, Len(files))
        /\ \A k \in 1..i : k <= Len(calls) /\ calls[k].fn \in ProcessFns

C5_Witness ==
    /\ pc = "done"
    /\ Len(datafiles[1]) = 2
    /\ datafiles[1][1] # datafiles[1][2]
    /\ Len(calls) = 5
    /\ calls[5].fn = "fail_under"

FilterOptions == ListKinds \cup {"gcov_filter"}

\* what build_filter and re.compile hand back
CompiledFilters == {re_compile(p) : p \in Patterns \cup {"", abspath(".") \o "/"}}

\* C6: every filter of every kind is built before the data files are
\* discovered, so when building a filter fails no input has been processed,
\* the store has not been created and no report has been rendered.
C6_FiltersBeforeInputs ==
    /\ raised # "" =>
        /\ pc = "exited"
        /\ datafiles = Unbound
        /\ covdata = Unbound
        /\ calls = <<>>
    /\ datafiles # Unbound =>
        /\ \A kind \in ListKinds :
            /\ IsRead(kind)
            /\ \A k \in 1..Len(Opt(kind)) : Opt(kind)[k] \in CompiledFilters
        /\ IsRead("gcov_filter")
        /\ Opt("gcov_filter") \in CompiledFilters

C6_Witness ==
    /\ raised # ""
    /\ IsRead("gcov_filter")
    /\ Opt("gcov_filter") = "("

Errors == {k \in 1..Len(log) : log[k].level = "error"}

\* C7: an empty --object-directory, an --object-directory that does not
\* exist and an empty --root each stop the run: exactly one error is logged,
\* the exit status is 1, and no filter is built, no input processed and no
\* report rendered.
C7_FatalConfiguration ==
    /\ Cardinality(Errors) <= 1
    /\ (\/ IsRead("objdir") /\ Opt("objdir") = ""
        \/ IsRead("objdir") /\ Opt("objdir") \notin {None, ""}
                            /\ ~exists(normpath(Opt("objdir")))
        \/ IsRead("root") /\ Opt("root") = "") => Errors # {}
    /\ Errors # {} =>
        /\ pc = "exited"
        /\ exit_status = <<1>>
        /\ log[Len(log)].level = "error"
        /\ \A name \in FilterOptions : ~IsRead(name)
        /\ datafiles = Unbound
        /\ covdata = Unbound
        /\ calls = <<>>

C7_Witness ==
    /\ pc = "exited"
    /\ IsRead("root")
    /\ Opt("root") = ""
    /\ Len(log) = 2
    /\ log[1].level = "warn"
    /\ log[2].level = "error"

\* C9: a threshold of 0 is disabled: a run exits with status 2 or 6 only if
\* fail_under_line > 0 and with status 4 or 6 only if fail_under_branch > 0;
\* with both 0 fail_under is not called and the run never exits with status
\* 2, 4 or 6.
C9_ZeroDisables ==
    /\ exit_status \in {<<2>>, <<6>>} =>
        IsRead("fail_under_line") /\ Positive(Opt("fail_under_line"))
    /\ exit_status \in {<<4>>, <<6>>} =>
        IsRead("fail_under_branch") /\ Positive(Opt("fail_under_branch"))
    /\ (/\ IsRead("fail_under_line") /\ ~Positive(Opt("fail_under_line"))
        /\ IsRead("fail_under_branch") /\ ~Positive(Opt("fail_under_branch"))) =>
        /\ \A k \in 1..Len(calls) : calls[k].fn # "fail_under"
        /\ exit_status \notin ThresholdExits

C9_Witness ==
    /\ pc = "done"
    /\ ~Positive(Opt("fail_under_line"))
    /\ ~Positive(Opt("fail_under_branch"))
    /\ get_global_stats(covdata[1]).lines_covered < get_global_stats(covdata[1]).lines_total
    /\ exit_status = <<0>>

Renderers == {"print_xml_report", "print_html_report", "print_text_report"}
Rendered == {k \in 1..Len(calls) : calls[k].fn \in Renderers}

====
